---- MODULE Spec2Model ----
(***************************************************************************)
(* Telegram -> WhatsApp bridge: the relay core.                            *)
(*                                                                         *)
(*   TelegramClient   (src/src/telegram.py)        lifecycle, intake       *)
(*   MessageHandler   (src/src/message_handler.py) dedup, filter           *)
(*   WhatsAppClient   (src/src/whatsapp.py)        dispatch, retry         *)
(*                                                                         *)
(* Python strings are sequences of one-character strings, so that          *)
(* substring search and lower() are computed, not assumed.  Python None    *)
(* in a string-valued field is the one-element sequence None; a missing    *)
(* user id is NoUserId.                                                    *)
(***************************************************************************)
EXTENDS Integers, Sequences, FiniteSets, TLC

VARIABLES
    is_running,          \* TelegramClient.is_running
    application,         \* TelegramClient.application: "none", "polling", "stopped"
    filters,             \* MessageHandler.filters (read-only after construction)
    processed_messages,  \* MessageHandler.processed_messages
    insert_order,        \* history: ids in order of their latest insertion
    pc,                  \* position of the event loop: "idle", "post", "sleep"
    retry_count,         \* _make_api_request.retry_count of the request in flight
    max_retries,         \* _make_api_request.max_retries of the request in flight
    message_data,        \* the message_data dict in hand
    call,                \* what the current / latest call did
    prev,                \* what the process_message call before it did
    handled,             \* how the latest _message_handler invocation ended
    update_queue,        \* Application.update_queue: updates fetched, not yet handled
    journal,             \* history: what became of each update taken from the queue
    main_stack,          \* the invocations of main() in progress, outermost first
    reconnect_log        \* history: what main's reconnection logic has logged

vars == <<is_running, application, filters, processed_messages, insert_order,
          pc, retry_count, max_retries, message_data, call, prev, handled,
          update_queue, journal, main_stack, reconnect_log>>

-----------------------------------------------------------------------------
(* Bounds of the model *)

\* message ids are 1..NumIds
NumIds == 3
\* the dedup capacity, 1000 in the code (message_handler.py:54), scaled down
CacheLimit == 2

(* Program constants *)

\* _make_api_request(..., max_retries: int = 3)
DefaultMaxRetries == 3

\* reconnection_config.get("max_retries", 5)
DefaultReconnectRetries == 5

-----------------------------------------------------------------------------
(* Python values *)

None == <<"<None>">>
NoUserId == -1

Truthy(s) == s # None /\ s # <<>>

\* str.lower() on the alphabet the model uses
LowerChar(c) ==
    CASE c = "S" -> "s"
      [] c = "P" -> "p"
      [] c = "A" -> "a"
      [] c = "M" -> "m"
      [] c = "O" -> "o"
      [] c = "K" -> "k"
      [] OTHER -> c

Lower(s) == [i \in 1..Len(s) |-> LowerChar(s[i])]

\* Python's  k in s  for strings: k occurs in s as a contiguous run
Contains(s, k) ==
    \E i \in 0..(Len(s) - Len(k)) :
        \A j \in 1..Len(k) : s[i + j] = k[j]

DigitChar(d) ==
    CASE d = 0 -> "0" [] d = 1 -> "1" [] d = 2 -> "2" [] d = 3 -> "3"
      [] d = 4 -> "4" [] d = 5 -> "5" [] d = 6 -> "6" [] d = 7 -> "7"
      [] d = 8 -> "8" [] d = 9 -> "9"

RECURSIVE Digits(_)
Digits(n) == IF n < 10 THEN <<DigitChar(n)>>
             ELSE Append(Digits(n \div 10), DigitChar(n % 10))

\* str(x) for an int or None
Str(x) == IF x = NoUserId THEN <<"N", "o", "n", "e">> ELSE Digits(x)

-----------------------------------------------------------------------------
(* MessageHandler._apply_filters *)

\* dict.get(key, []) on the filter configuration
FilterGet(f, key) == IF key \in f.keys THEN f[key] ELSE <<>>

\* a list tested for presence instead of truth:  if include_keywords is not None
ListTruthyAlways(list) == TRUE

\* the truth value of a list:  if allowed_types ...,  if include_keywords:
ListTruthy(list) == list # <<>>

\* x in list
InList(x, list) == \E i \in 1..Len(list) : list[i] = x

\* a configured keyword that is not a string: keyword.lower() raises on it
NonStr == <<"<int>">>

\* the containment test turned round:  if text in keyword.lower()
RECURSIVE KeywordScanReversed(_, _, _)
KeywordScanReversed(keywords, text, i) ==
    IF i > Len(keywords) THEN "none"
    ELSE IF keywords[i] = NonStr THEN "raise"
    ELSE IF Contains(Lower(keywords[i]), text) THEN "hit"
    ELSE KeywordScanReversed(keywords, text, i + 1)

\* for keyword in keywords: if keyword.lower() in text: <hit>
\* "hit" at the first keyword found in text, "raise" when a keyword that is
\* not a string is reached first, "none" when the loop runs to its end
RECURSIVE KeywordScan(_, _, _)
KeywordScan(keywords, text, i) ==
    IF i > Len(keywords) THEN "none"
    ELSE IF keywords[i] = NonStr THEN "raise"
    ELSE IF Contains(text, Lower(keywords[i])) THEN "hit"
    ELSE KeywordScan(keywords, text, i + 1)

\* the text searched as it was typed, .lower() left out
HaystackAsTyped(m) == m.text \o <<" ">> \o m.caption

\* text = (message_data.get("text", "") + " " + message_data.get("caption", "")).lower()
Haystack(m) == Lower(m.text \o <<" ">> \o m.caption)

\* the rule on required keywords moved in front of the rejecting rules
apply_filters_IncludeFirst(f, m) ==
    IF f.keys = {} THEN "True"
    ELSE IF /\ ListTruthy(FilterGet(f, "only_include_keywords"))
            /\ KeywordScan(FilterGet(f, "only_include_keywords"), Haystack(m), 1) = "hit"
         THEN "True"
    ELSE IF /\ ListTruthy(FilterGet(f, "only_forward_media_types"))
            /\ ~InList(m.type, FilterGet(f, "only_forward_media_types"))
         THEN "False"
    ELSE IF Truthy(m.username) /\ InList(m.username, FilterGet(f, "ignore_users"))
         THEN "False"
    ELSE IF InList(Str(m.user_id), FilterGet(f, "ignore_users")) THEN "False"
    ELSE IF KeywordScan(FilterGet(f, "ignore_keywords"), Haystack(m), 1) = "hit"
         THEN "False"
    ELSE IF ListTruthy(FilterGet(f, "only_include_keywords")) THEN "False"
    ELSE "True"

\* the result of _apply_filters: "True", "False", or "raise" when evaluating
\* it raises
apply_filters(f, m) ==
    IF f.keys = {} THEN "True"
    ELSE IF /\ ListTruthy(FilterGet(f, "only_forward_media_types"))
            /\ ~InList(m.type, FilterGet(f, "only_forward_media_types"))
         THEN "False"
    ELSE IF Truthy(m.username) /\ InList(m.username, FilterGet(f, "ignore_users"))
         THEN "False"
    ELSE IF InList(Str(m.user_id), FilterGet(f, "ignore_users")) THEN "False"
    ELSE LET ignored == KeywordScan(FilterGet(f, "ignore_keywords"), Haystack(m), 1)
             include_keywords == FilterGet(f, "only_include_keywords")
             included == KeywordScan(include_keywords, Haystack(m), 1)
         IN  IF ignored = "hit" THEN "False"
             ELSE IF ignored = "raise" THEN "raise"
             ELSE IF ListTruthy(include_keywords)
                  THEN (IF included = "hit" THEN "True"
                        ELSE IF included = "raise" THEN "raise"
                        ELSE "False")
             ELSE "True"

-----------------------------------------------------------------------------
(* TelegramClient._extract_message_data *)

\* the media attributes of a Telegram message, in the order of the if/elif chain
MediaKinds == <<"photo", "video", "document", "audio", "voice", "sticker">>

RECURSIVE FirstKind(_, _)
FirstKind(media, i) ==
    IF i > Len(MediaKinds) THEN "text"
    ELSE IF MediaKinds[i] \in media THEN MediaKinds[i]
    ELSE FirstKind(media, i + 1)

\* x or ""
OrEmpty(x) == IF Truthy(x) THEN x ELSE <<>>

\* an update without an effective_message makes the extraction raise
ExtractRaises(u) == ~u.has_message

extract_message_data(u) ==
    [message_id |-> u.message_id,
     chat_id    |-> u.chat_id,
     user_id    |-> u.user_id,
     username   |-> u.username,
     text       |-> OrEmpty(u.text),
     caption    |-> OrEmpty(u.caption),
     type       |-> FirstKind(u.media, 1),
     media_file |-> IF FirstKind(u.media, 1) = "text" THEN None ELSE u.file_id]

-----------------------------------------------------------------------------
(* WhatsAppClient.send_message: the outbound request it builds *)

\* the Telegram kind passed on as it is, whatsapp_type_map not consulted
WhatsAppTypeVerbatim(message_type) == message_type

\* whatsapp_type_map
WhatsAppType(message_type) ==
    CASE message_type = "photo"    -> "image"
      [] message_type = "video"    -> "video"
      [] message_type = "audio"    -> "audio"
      [] message_type = "document" -> "document"
      [] message_type = "voice"    -> "audio"
      [] message_type = "sticker"  -> "image"
      [] OTHER -> "document"

\* the sender put in front of the text, as format_message does
FullTextWithSender(m) ==
    IF Truthy(m.username) THEN <<"*">> \o m.username \o <<"*", ":", " ">> \o m.text
    ELSE m.text

\* full_text: text and caption joined by a blank line, else  text or caption
FullText(m) ==
    IF Truthy(m.text) /\ Truthy(m.caption)
    THEN m.text \o <<"\n", "\n">> \o m.caption
    ELSE IF Truthy(m.text) THEN m.text ELSE m.caption

\* send_text_message(text): the payload posted
TextRequest(text) == [api |-> "text", type |-> "text", body |-> text,
                      link |-> <<>>, has_caption |-> FALSE, caption |-> <<>>]

\* send_media_message(media_type, media_url, caption): the payload posted
MediaRequest(media_type, media_url, caption) ==
    [api |-> "media", type |-> media_type, body |-> <<>>, link |-> media_url,
     has_caption |-> Truthy(caption) /\ media_type \in {"image", "video", "document"},
     caption |-> IF Truthy(caption) /\ media_type \in {"image", "video", "document"}
                 THEN caption ELSE <<>>]

\* the branches  if not media_file  and  else (unsupported type)  left out:
\* every kind but text goes to send_media_message
send_message_NoFallback(m) ==
    IF m.type = "text" THEN TextRequest(FullText(m))
    ELSE MediaRequest(WhatsAppType(m.type),
                      <<"https://example.com/media/">> \o m.media_file,
                      FullText(m))

send_message(m) ==
    IF m.type = "text" THEN TextRequest(FullText(m))
    ELSE IF m.type \in {"photo", "video", "audio", "document", "voice", "sticker"}
         THEN IF ~Truthy(m.media_file) THEN TextRequest(FullText(m))
              ELSE MediaRequest(WhatsAppType(m.type),
                                <<"https://example.com/media/">> \o m.media_file,
                                FullText(m))
    ELSE TextRequest(FullText(m))

-----------------------------------------------------------------------------
(* MessageHandler.format_message *)

\* f"*{username}*: {content}"
WithSender(username, content) ==
    <<"*">> \o username \o <<"*", ":", " ">> \o content

\* f"[{message_type}]": the kind is one element of the string
Placeholder(message_type) == <<"[", message_type, "]">>

\* the branch on the kind left out: a text message formatted as a media one
format_message_AsMedia(m) ==
    LET content == IF Truthy(m.text) /\ Truthy(m.caption)
                   THEN m.text \o <<"\n", "\n">> \o m.caption
                   ELSE IF Truthy(m.text) THEN m.text
                   ELSE IF Truthy(m.caption) THEN m.caption
                   ELSE Placeholder(m.type)
    IN  IF Truthy(m.username) THEN WithSender(m.username, content) ELSE content

format_message(m) ==
    IF m.type = "text"
    THEN IF Truthy(m.username) THEN WithSender(m.username, m.text) ELSE m.text
    ELSE LET content == IF Truthy(m.text) /\ Truthy(m.caption)
                        THEN m.text \o <<"\n", "\n">> \o m.caption
                        ELSE IF Truthy(m.text) THEN m.text
                        ELSE IF Truthy(m.caption) THEN m.caption
                        ELSE Placeholder(m.type)
         IN  IF Truthy(m.username) THEN WithSender(m.username, content)
             ELSE content

-----------------------------------------------------------------------------
(* The inbound events and the configurations the model runs on *)

Ids == 1..NumIds

\* TelegramClient.channel_id, and the chats events come from
ChannelId == <<"5">>
MonitoredChat == 5
OtherChat == 6

\* The source guarantees that an id names one logical message, so the content
\* of an update is a function of its message id.
Update(id, chat, well_formed) ==
    CASE id = 1 ->
           [message_id |-> id, chat_id |-> chat, has_message |-> well_formed,
            user_id |-> 7, username |-> <<"b", "o", "b">>,
            text |-> <<"o", "k">>, caption |-> None, media |-> {},
            file_id |-> None]
      [] id = 2 ->
           [message_id |-> id, chat_id |-> chat, has_message |-> well_formed,
            user_id |-> NoUserId, username |-> None,
            text |-> None, caption |-> <<"S", "p", "a", "m">>,
            media |-> {"photo"}, file_id |-> <<"r", "1">>]
      [] id = 3 ->
           [message_id |-> id, chat_id |-> chat, has_message |-> well_formed,
            user_id |-> 42, username |-> <<"a", "l">>,
            text |-> None, caption |-> None,
            media |-> {"voice"}, file_id |-> <<"r", "2">>]
      [] OTHER ->
           [message_id |-> id, chat_id |-> chat, has_message |-> well_formed,
            user_id |-> 42, username |-> <<"a", "l">>,
            text |-> <<"o", "k">>, caption |-> None, media |-> {},
            file_id |-> None]

Updates ==
    {Update(id, chat, TRUE) : id \in Ids, chat \in {MonitoredChat, OtherChat}}
        \cup {Update(1, MonitoredChat, FALSE)}

\* filters = {}
NoFilters ==
    [keys |-> {}, only_forward_media_types |-> <<>>, ignore_users |-> <<>>,
     ignore_keywords |-> <<>>, only_include_keywords |-> <<>>]

AllKeys == {"only_forward_media_types", "ignore_users", "ignore_keywords",
            "only_include_keywords"}

\* every key present, every list empty
EmptyLists == [NoFilters EXCEPT !.keys = AllKeys]

FilterConfigs ==
    { NoFilters,
      EmptyLists,
      [EmptyLists EXCEPT !.ignore_keywords = << <<"s", "p", "a", "m">> >>,
                         !.ignore_users = << <<"b", "o", "b">> >>,
                         !.only_forward_media_types = <<"text", "photo">>],
      [EmptyLists EXCEPT !.only_include_keywords = << <<"o", "k">>, NonStr >>] }

-----------------------------------------------------------------------------
(* The dedup cache: MessageHandler.process_message, lines 47-55 *)

\* list(a_set): a set is iterated in hash-table order, which the language
\* leaves unspecified; any enumeration of its elements can come out
IterationOrders(S) ==
    {q \in [1..Cardinality(S) -> S] : \A i, j \in 1..Cardinality(S) :
                                          q[i] = q[j] => i = j}

\* a_list[-n:]
LastN(q, n) == IF Len(q) <= n THEN q ELSE SubSeq(q, Len(q) - n + 1, Len(q))

Range(q) == {q[i] : i \in 1..Len(q)}

\* the size test left out
TrimmedNever(S) == {S}

\* if len(S) > 1000: S = set(list(S)[-1000:])
\* the cache contents that can result from trimming S
Trimmed(S) ==
    IF Cardinality(S) > CacheLimit
    THEN {Range(LastN(q, CacheLimit)) : q \in IterationOrders(S)}
    ELSE {S}

\* history: x moves to the end of the insertion order
Inserted(order, x) == Append(SelectSeq(order, LAMBDA y : y # x), x)

-----------------------------------------------------------------------------
(* State *)

\* call.via       "process_message"; or, for a call of a method by itself,
\*                "direct" (_make_api_request), "apply_filters",
\*                "format_message"
\* call.seen      the id was in the cache when the call arrived
\* call.recorded  the id was in the cache when send_message was invoked
\* call.filter    what _apply_filters gave: "none" when it was not evaluated
\* call.sends     invocations of whatsapp_client.send_message
\* call.posts     requests.post attempts; failed_posts those that raised
\* call.sleeps    the time.sleep arguments, in order
\* call.request   the payload send_message built, or a direct call was given
\* call.api       how _make_api_request ended: "none", "pending", "returned",
\*                "returned_none" (the loop never ran), "raised"
\* call.response  the attempt whose response was returned, 0 for none
\* call.reply     the body returned: "ok" with a message id, "no_id"
\*                without one, "none" when nothing was returned
\* call.result    what process_message gave: "none", "pending", "True",
\*                "False", or "raised" when an exception left it
\* call.formatted what format_message returned, for a call of it
NoCall ==
    [via |-> "process_message", id |-> 0, seen |-> FALSE, recorded |-> FALSE,
     filter |-> "none", sends |-> 0, posts |-> 0, failed_posts |-> 0,
     sleeps |-> <<>>, request |-> TextRequest(<<>>), api |-> "none",
     response |-> 0, reply |-> "none", result |-> "none", formatted |-> <<>>]

\* no message in hand yet
NoMessage ==
    [message_id |-> 0, chat_id |-> 0, user_id |-> NoUserId, username |-> None,
     text |-> <<>>, caption |-> <<>>, type |-> "text", media_file |-> None]

NoPrev == [id |-> 0, seen |-> FALSE, sends |-> 0, result |-> "none"]

\* an invocation of main() as it starts, under a configuration whose
\* reconnection.max_retries is mr
\*   at         "enter" (load_config, setup_logging), "try" (the try block),
\*              "for" (the loop test of the reconnection loop), "called" (inside
\*              the nested main()), "exited"
\*   attempt    the iterations of the reconnection loop begun
\*   broke      the loop was left by its break
Frame(mr) == [at |-> "enter", attempt |-> 0, broke |-> FALSE, max_retries |-> mr]

\* attempts     the "Intentando reconexión" lines logged
\* exhausted    the latest "Se agotaron los intentos" line: "none", or whether
\*              the loop that logged it had run out ("all_failed") or had been
\*              left by break ("after_success")
NoReports == [attempts |-> 0, exhausted |-> "none"]

\* the clients and the handler as their constructors leave them
Built ==
    /\ is_running = FALSE
    /\ application = "none"
    /\ processed_messages = {}
    /\ insert_order = <<>>
    /\ pc = "idle"
    /\ retry_count = 0
    /\ max_retries = DefaultMaxRetries
    /\ call = NoCall
    /\ prev = NoPrev
    /\ handled = "none"
    /\ update_queue = <<>>
    /\ journal = <<>>
    /\ reconnect_log = NoReports

\* main() is in its try block, its configuration names no max_retries
Constructed ==
    /\ Built
    /\ main_stack = <<[Frame(DefaultReconnectRetries) EXCEPT !.at = "try"]>>

Init ==
    /\ Constructed
    /\ filters \in FilterConfigs
    /\ message_data = NoMessage

\* what is remembered of a finished call when the next one starts
Summary(c) == [id |-> c.id, seen |-> c.seen, sends |-> c.sends,
               result |-> c.result]

-----------------------------------------------------------------------------
(* TelegramClient: lifecycle *)

\* start_polling(message_callback)
StartPolling ==
    /\ application = "none"
    /\ application' = "polling"
    /\ is_running' = TRUE
    /\ UNCHANGED <<filters, processed_messages, insert_order, pc, retry_count,
                   max_retries, message_data, call, prev, handled,
                   update_queue, journal,
                   main_stack, reconnect_log>>

\* /start
StartCommand ==
    /\ application = "polling" /\ pc = "idle"
    /\ is_running' = TRUE
    /\ UNCHANGED <<application, filters, processed_messages, insert_order, pc,
                   retry_count, max_retries, message_data, call, prev, handled,
                   update_queue, journal,
                   main_stack, reconnect_log>>

\* /stop
StopCommand ==
    /\ application = "polling" /\ pc = "idle"
    /\ is_running' = FALSE
    /\ UNCHANGED <<application, filters, processed_messages, insert_order, pc,
                   retry_count, max_retries, message_data, call, prev, handled,
                   update_queue, journal,
                   main_stack, reconnect_log>>

\* stop()
Stop ==
    /\ application = "polling" /\ pc = "idle"
    /\ is_running' = FALSE
    /\ application' = "stopped"
    /\ UNCHANGED <<filters, processed_messages, insert_order, pc, retry_count,
                   max_retries, message_data, call, prev, handled,
                   update_queue, journal,
                   main_stack, reconnect_log>>

-----------------------------------------------------------------------------
(* MessageHandler.process_message: how a call ends *)

\* the filters evaluated before the seen-check
DuplicateAfterFilters(c) ==
    /\ call' = [c EXCEPT !.result = "False",
                         !.filter = apply_filters(filters, message_data')]
    /\ handled' = "done"
    /\ pc' = "idle"

\* return False  at line 49: the id is in the cache
Duplicate(c) ==
    /\ call' = [c EXCEPT !.result = "False"]
    /\ handled' = "done"
    /\ pc' = "idle"

\* return True  where the filters rejected the message
FilteredReportsTrue(c) ==
    /\ call' = [c EXCEPT !.result = "True"]
    /\ handled' = "done"
    /\ pc' = "idle"

\* return False  at line 60: the filters rejected the message
Filtered(c) ==
    /\ call' = [c EXCEPT !.result = "False"]
    /\ handled' = "done"
    /\ pc' = "idle"

\* an exception of the filters that nothing catches: the event loop ends
FilterErrorCrashes(c) ==
    /\ call' = [c EXCEPT !.result = "raised"]
    /\ handled' = "error"
    /\ pc' = "crashed"

\* _apply_filters raised: nothing in process_message catches it, the
\* try/except of _message_handler does
FilterError(c) ==
    /\ call' = [c EXCEPT !.result = "raised"]
    /\ handled' = "error"
    /\ pc' = "idle"

\* return True  at line 68: send_message returned
Forwarded(c) ==
    /\ call' = [c EXCEPT !.result = "True"]
    /\ handled' = "done"
    /\ pc' = "idle"

\* send_message called outside the try: its exception leaves process_message
ForwardErrorEscapes(c) ==
    /\ call' = [c EXCEPT !.result = "raised"]
    /\ handled' = "error"
    /\ pc' = "idle"

\* except Exception ... return False  at lines 70-72: send_message raised
ForwardError(c) ==
    /\ call' = [c EXCEPT !.result = "False"]
    /\ handled' = "done"
    /\ pc' = "idle"

-----------------------------------------------------------------------------
(* WhatsAppClient._make_api_request *)

\* what requests.post / raise_for_status / json can do:
\*   "ok"         the response parses, it is returned
\*   "no_id"      the response parses to a body without a message id (an
\*                empty object, an error object sent with status 200): it
\*                is returned just the same, nothing in the code reads it
\*   "transport"  requests.exceptions.RequestException
\*   "other"      any other exception; it leaves the loop at once
PostOutcomes == {"ok", "no_id", "transport", "other"}

RECURSIVE Pow2(_)
Pow2(n) == IF n = 0 THEN 1 ELSE 2 * Pow2(n - 1)

\* the wait computed before retry_count is incremented
WaitTimeEarly(count) == Pow2(count - 1)

\* wait_time = 2 ** retry_count
WaitTime(count) == Pow2(count)

\* while retry_count < max_retries
LoopRuns(count, limit) == count < limit

\* the limit tested with > : one more attempt is made
ExhaustedLate(count, limit) == count > limit

\* if retry_count >= max_retries: raise
Exhausted(count, limit) == count >= limit

\* the return inside the loop left out: the loop goes on after a success
ReturnedKeepsLooping(c) ==
    call' = c /\ pc' = "post" /\ UNCHANGED handled

\* _make_api_request returns to its caller
Returned(c) ==
    IF c.via = "process_message" THEN Forwarded(c)
    ELSE call' = c /\ pc' = "idle" /\ UNCHANGED handled

\* an exception leaves _make_api_request
Raised(c) ==
    IF c.via = "process_message" THEN ForwardError(c)
    ELSE call' = c /\ pc' = "idle" /\ UNCHANGED handled

\* retry_count = 0 and the first loop test, with max_retries = limit
EnterApiRequest(c, limit) ==
    /\ retry_count' = 0
    /\ max_retries' = limit
    /\ IF LoopRuns(0, limit)
       THEN /\ call' = [c EXCEPT !.api = "pending"]
            /\ pc' = "post"
            /\ handled' = IF c.via = "process_message" THEN "pending" ELSE handled
       ELSE Returned([c EXCEPT !.api = "returned_none"])

\* one pass of the loop body: the POST and what follows it
PostAttempt(outcome) ==
    /\ pc = "post"
    /\ UNCHANGED <<is_running, application, filters, processed_messages,
                   insert_order, max_retries, message_data, prev>>
    /\ IF outcome \in {"ok", "no_id"}
       THEN /\ Returned([call EXCEPT !.posts = @ + 1, !.api = "returned",
                                     !.response = call.posts + 1,
                                     !.reply = outcome])
            /\ UNCHANGED retry_count
       ELSE IF outcome = "other"
       THEN /\ Raised([call EXCEPT !.posts = @ + 1, !.failed_posts = @ + 1,
                                   !.api = "raised"])
            /\ UNCHANGED retry_count
       ELSE /\ retry_count' = retry_count + 1
            /\ IF Exhausted(retry_count', max_retries)
               THEN Raised([call EXCEPT !.posts = @ + 1, !.failed_posts = @ + 1,
                                        !.api = "raised"])
               ELSE /\ call' = [call EXCEPT !.posts = @ + 1,
                                            !.failed_posts = @ + 1]
                    /\ pc' = "sleep"
                    /\ UNCHANGED handled

Post(outcome) ==
    /\ PostAttempt(outcome)
    /\ UNCHANGED <<update_queue, journal, main_stack, reconnect_log>>

\* time.sleep(wait_time), then the loop test
Backoff ==
    /\ pc = "sleep"
    /\ UNCHANGED <<is_running, application, filters, processed_messages,
                   insert_order, retry_count, max_retries, message_data, prev>>
    /\ LET slept == [call EXCEPT !.sleeps = Append(@, WaitTime(retry_count))]
       IN  IF LoopRuns(retry_count, max_retries)
           THEN call' = slept /\ pc' = "post" /\ UNCHANGED handled
           ELSE Returned([slept EXCEPT !.api = "returned_none"])

Sleep ==
    /\ Backoff
    /\ UNCHANGED <<update_queue, journal, main_stack, reconnect_log>>

-----------------------------------------------------------------------------
(* MessageHandler.process_message *)

\* the id is added, the cache trimmed, the filters applied and, when they
\* pass, send_message invoked: it posts with the default max_retries
Fresh(m) ==
    \E cache \in Trimmed(processed_messages \cup {m.message_id}) :
        LET verdict == apply_filters(filters, m)
            started == [NoCall EXCEPT !.id = m.message_id, !.filter = verdict]
        IN  /\ processed_messages' = cache
            /\ insert_order' = Inserted(insert_order, m.message_id)
            /\ IF verdict = "raise"
               THEN FilterError(started) /\ UNCHANGED <<retry_count, max_retries>>
               ELSE IF verdict = "False"
               THEN Filtered(started) /\ UNCHANGED <<retry_count, max_retries>>
               ELSE EnterApiRequest(
                        [started EXCEPT !.sends = 1,
                                        !.request = send_message(m),
                                        !.recorded = (m.message_id \in cache),
                                        !.result = "pending"],
                        DefaultMaxRetries)

process_message(m) ==
    /\ message_data' = m
    /\ prev' = IF call.id = 0 THEN prev ELSE Summary(call)
    /\ IF m.message_id \in processed_messages
       THEN /\ Duplicate([NoCall EXCEPT !.id = m.message_id, !.seen = TRUE])
            /\ UNCHANGED <<processed_messages, insert_order, retry_count,
                           max_retries>>
       ELSE Fresh(m)

-----------------------------------------------------------------------------
(* TelegramClient._message_handler *)

\* the handler runs its callback in a thread of its own: the event loop is
\* free for the next update while a request is in flight
EventLoopFreeAlways == TRUE

\* _message_handler awaits nothing and calls message_callback synchronously:
\* the event loop takes up no other update until the call has returned
EventLoopFree == pc = "idle"

\* the test of is_running left out
BridgeInactiveNever == FALSE

\* if not self.is_running
BridgeInactive == ~is_running

\* the test of the chat left out
UnmonitoredNever(u) == FALSE

\* if str(update.effective_chat.id) != self.channel_id
Unmonitored(u) == Str(u.chat_id) # ChannelId

HandleUpdate(u) ==
    /\ application = "polling" /\ EventLoopFree
    /\ UNCHANGED <<is_running, application, filters>>
    /\ IF BridgeInactive
       THEN /\ handled' = "inactive"
            /\ UNCHANGED <<processed_messages, insert_order, pc, retry_count,
                           max_retries, message_data, call, prev>>
       ELSE IF Unmonitored(u)
       THEN /\ handled' = "unmonitored"
            /\ UNCHANGED <<processed_messages, insert_order, pc, retry_count,
                           max_retries, message_data, call, prev>>
       ELSE IF ExtractRaises(u)
       THEN /\ handled' = "error"
            /\ UNCHANGED <<processed_messages, insert_order, pc, retry_count,
                           max_retries, message_data, call, prev>>
       ELSE process_message(extract_message_data(u))

message_handler(u) ==
    /\ HandleUpdate(u)
    /\ UNCHANGED <<update_queue, journal, main_stack, reconnect_log>>

-----------------------------------------------------------------------------

Next ==
    \/ StartPolling
    \/ StartCommand
    \/ StopCommand
    \/ Stop
    \/ \E u \in Updates : message_handler(u)
    \/ \E outcome \in PostOutcomes : Post(outcome)
    \/ Sleep

Spec == Init /\ [][Next]_vars

-----------------------------------------------------------------------------
(* _make_api_request called by itself, with any max_retries, as the test  *)
(* suite calls it                                                          *)

\* the largest max_retries a direct call is given
MaxRetriesArg == 4

\* the payloads a direct call is given
Payloads == {send_message(extract_message_data(u)) : u \in Updates}

ApiRequest(payload, limit) ==
    /\ pc = "idle"
    /\ EnterApiRequest([NoCall EXCEPT !.via = "direct", !.request = payload],
                       limit)
    /\ UNCHANGED <<is_running, application, filters, processed_messages,
                   insert_order, message_data, prev, update_queue, journal,
                   main_stack, reconnect_log>>

ApiNext ==
    \/ \E payload \in Payloads, limit \in 0..MaxRetriesArg :
           ApiRequest(payload, limit)
    \/ \E outcome \in PostOutcomes : Post(outcome)
    \/ Sleep

ApiInit == Constructed /\ filters = NoFilters /\ message_data = NoMessage

ApiSpec == ApiInit /\ [][ApiNext]_vars

-----------------------------------------------------------------------------
(* _apply_filters by itself, on any configuration and any well-formed      *)
(* message                                                                 *)

Spam == <<"s", "p", "a", "m">>
Bob == <<"b", "o", "b">>
\* a keyword of two words
OkSpam == <<"o", "k", " ", "s", "p", "a", "m">>

\* configurations whose lists are all empty: any of the keys may be absent
EmptyConfigs == {[NoFilters EXCEPT !.keys = k] : k \in SUBSET AllKeys}

TestedConfigs ==
    EmptyConfigs \cup FilterConfigs \cup
    { [EmptyLists EXCEPT !.ignore_users = <<Bob, <<"7">>, <<"N", "o", "n", "e">> >>],
      [EmptyLists EXCEPT !.ignore_keywords = <<Spam>>,
                         !.only_include_keywords = << <<"o", "k">> >>],
      [NoFilters EXCEPT !.keys = {"only_forward_media_types"},
                        !.only_forward_media_types = <<"photo">>],
      [NoFilters EXCEPT !.keys = {"ignore_keywords"},
                        !.ignore_keywords = <<Spam>>],
      [NoFilters EXCEPT !.keys = {"only_include_keywords"},
                        !.only_include_keywords = <<OkSpam>>],
      [EmptyLists EXCEPT !.only_include_keywords = << <<"o", "k">> >>,
                         !.ignore_users = <<Bob, <<"7">> >>,
                         !.only_forward_media_types = <<"text", "photo">>] }

\* message_data as _extract_message_data shapes it: text and caption are
\* strings, user_id and username may be None
WellFormedMessages ==
    [message_id : {1},
     chat_id    : {MonitoredChat},
     user_id    : {NoUserId, 7},
     username   : {None, <<>>, Bob},
     text       : {<<>>, <<"o", "k">>, <<"n", "o", " ", "S", "P", "A", "M">>},
     caption    : {<<>>, Spam},
     type       : {"text", "photo", "voice"},
     media_file : {None, <<"r", "1">>}]

FilterInit ==
    /\ Constructed
    /\ filters \in TestedConfigs
    /\ message_data \in WellFormedMessages

\* verdict = self._apply_filters(message_data)
ApplyFilters ==
    /\ call.filter = "none"
    /\ call' = [call EXCEPT !.via = "apply_filters",
                            !.filter = apply_filters(filters, message_data)]
    /\ UNCHANGED <<is_running, application, filters, processed_messages,
                   insert_order, pc, retry_count, max_retries, message_data,
                   prev, handled, update_queue, journal,
                   main_stack, reconnect_log>>

FilterSpec == FilterInit /\ [][ApplyFilters]_vars

-----------------------------------------------------------------------------
(* process_message and format_message called by themselves on a message   *)
(* in hand, as the test suite calls them                                   *)

\* the kinds send_message maps, the text kind, and a kind it does not know
DispatchKinds == {"text", "photo", "video", "audio", "document", "voice",
                  "sticker", "poll"}

\* messages as a caller can build them: a media kind may come without a
\* media_file (None or ""), and the kind may be one send_message does not map
DispatchMessages ==
    [message_id : {1},
     chat_id    : {MonitoredChat},
     user_id    : {7},
     username   : {None, Bob},
     text       : {<<>>, <<"o", "k">>},
     caption    : {<<>>, Spam},
     type       : DispatchKinds,
     media_file : {None, <<>>, <<"r", "1">>}]

HandlerInit ==
    /\ Constructed
    /\ \/ filters \in TestedConfigs /\ message_data \in WellFormedMessages
       \/ filters = NoFilters /\ message_data \in DispatchMessages

\* handler.process_message(message_data)
ProcessMessage ==
    /\ pc = "idle"
    /\ process_message(message_data)
    /\ UNCHANGED <<is_running, application, filters, update_queue, journal,
                   main_stack, reconnect_log>>

\* handler.format_message(message_data)
FormatMessage ==
    /\ pc = "idle"
    /\ call' = [NoCall EXCEPT !.via = "format_message",
                              !.formatted = format_message(message_data)]
    /\ UNCHANGED <<is_running, application, filters, processed_messages,
                   insert_order, pc, retry_count, max_retries, message_data,
                   prev, handled, update_queue, journal,
                   main_stack, reconnect_log>>

HandlerNext ==
    \/ ProcessMessage
    \/ FormatMessage
    \/ \E outcome \in PostOutcomes : Post(outcome)
    \/ Sleep

HandlerSpec == HandlerInit /\ [][HandlerNext]_vars

-----------------------------------------------------------------------------
(* The update queue.  Updates for the bot wait in arrival order, at        *)
(* Telegram or in Application.update_queue, and the application hands them *)
(* to _message_handler one by one; an update can arrive at any time, also  *)
(* while a request is in flight.                                           *)

\* the number of updates that arrive in a run
MaxUpdates == 4

\* the updates of the monitored channel
ChannelUpdates == {Update(id, MonitoredChat, TRUE) : id \in Ids}

\* journal.n     the arrival number of the update
\* journal.id, journal.chat   its message id and its chat
\* journal.running            is_running when the update was taken
\* journal.ev    "dropped", "error", "duplicate", "filtered", "send" (the
\*               update was taken and send_message invoked for it), or
\*               "done" (that send_message call has ended, retries included)
\* journal.twin  when the update was taken, the next one in the queue had
\*               the same message id
Taken(j) == SelectSeq(j, LAMBDA e : e.ev # "done")

\* updates arrived so far
Arrived == Len(update_queue) + Len(Taken(journal))

\* an update arrives
Arrive(u) ==
    /\ application = "polling"
    /\ Arrived < MaxUpdates
    /\ update_queue' = Append(update_queue, [n |-> Arrived + 1, u |-> u])
    /\ UNCHANGED <<is_running, application, filters, processed_messages,
                   insert_order, pc, retry_count, max_retries, message_data,
                   call, prev, handled, journal, main_stack, reconnect_log>>

\* the application takes the oldest update and runs _message_handler on it
TakeUpdate ==
    /\ update_queue # <<>>
    /\ HandleUpdate(Head(update_queue).u)
    /\ update_queue' = Tail(update_queue)
    /\ UNCHANGED <<main_stack, reconnect_log>>
    /\ journal' = Append(journal,
           [n    |-> Head(update_queue).n,
            id   |-> Head(update_queue).u.message_id,
            chat |-> Head(update_queue).u.chat_id,
            running |-> is_running,
            ev   |-> IF handled' = "error" THEN "error"
                     ELSE IF handled' \in {"inactive", "unmonitored"} THEN "dropped"
                     ELSE IF call'.seen THEN "duplicate"
                     ELSE IF call'.sends = 0 THEN "filtered"
                     ELSE "send",
            twin |-> /\ Len(update_queue) >= 2
                     /\ update_queue[2].u.message_id =
                            Head(update_queue).u.message_id])

\* the arrival number of the latest update send_message was invoked for
LatestSend(j) ==
    LET sends == SelectSeq(j, LAMBDA e : e.ev = "send")
    IN  IF sends = <<>> THEN 0 ELSE sends[Len(sends)].n

\* history: the journal notes the return of send_message
NoteReturn ==
    journal' = IF pc' = "idle"
               THEN Append(journal, [n |-> LatestSend(journal), id |-> call.id,
                                     chat |-> MonitoredChat,
                                     running |-> is_running,
                                     ev |-> "done", twin |-> FALSE])
               ELSE journal

QueuePost(outcome) ==
    PostAttempt(outcome) /\ NoteReturn
    /\ UNCHANGED <<update_queue, main_stack, reconnect_log>>

QueueSleep == Backoff /\ NoteReturn
    /\ UNCHANGED <<update_queue, main_stack, reconnect_log>>

QueueNext ==
    \/ StartPolling
    \/ \E u \in ChannelUpdates : Arrive(u)
    \/ TakeUpdate
    \/ \E outcome \in PostOutcomes : QueuePost(outcome)
    \/ QueueSleep

QueueSpec == Init /\ [][QueueNext]_vars

-----------------------------------------------------------------------------
(* The bridge switched on and off by /start, /stop and stop() while        *)
(* updates arrive, from the monitored channel and from another chat        *)

\* the same message id from two chats, and a second id
GateUpdates == {Update(1, MonitoredChat, TRUE), Update(1, OtherChat, TRUE),
                Update(2, MonitoredChat, TRUE)}

\* a request succeeds or fails at its first attempt: the retries play no
\* part in the gate
GateOutcomes == {"ok", "other"}

LifecycleNext ==
    \/ StartPolling
    \/ StartCommand
    \/ StopCommand
    \/ Stop
    \/ \E u \in GateUpdates : Arrive(u)
    \/ TakeUpdate
    \/ \E outcome \in GateOutcomes : QueuePost(outcome)

LifecycleSpec == Init /\ [][LifecycleNext]_vars

-----------------------------------------------------------------------------
(* main(): the reconnection logic.  Every invocation of main() builds its  *)
(* own clients; is_running and application are those of the outermost     *)
(* invocation, the clients of a nested one are discarded when it returns.  *)

\* the largest reconnection.max_retries configured
MaxReconnectRetries == 2

\* the invocations of main() in progress at once
MaxDepth == 4

Top == main_stack[Len(main_stack)]

SetTop(f) == [main_stack EXCEPT ![Len(main_stack)] = f]

\* the invocation on top returns: the program ends, or the caller's loop is
\* left by break (lines 119-120)
ReturnsNormally ==
    IF Len(main_stack) = 1
    THEN <<[Top EXCEPT !.at = "exited"]>>
    ELSE LET rest == SubSeq(main_stack, 1, Len(main_stack) - 1)
         IN  [rest EXCEPT ![Len(rest)] = [@ EXCEPT !.at = "for", !.broke = TRUE]]

\* an exception leaves the invocation on top: the caller logs "Reintento
\* fallido" and goes on with its loop (lines 121-122)
RaisesToCaller ==
    LET rest == SubSeq(main_stack, 1, Len(main_stack) - 1)
    IN  [rest EXCEPT ![Len(rest)] = [@ EXCEPT !.at = "for"]]

\* finally: telegram_client.stop()
Finally ==
    IF Len(main_stack) = 1
    THEN /\ is_running' = FALSE
         /\ application' = IF application = "polling" THEN "stopped"
                           ELSE application
    ELSE UNCHANGED <<is_running, application>>

\* telegram_client.start_polling(message_handler.process_message)
MainStartPolling ==
    /\ Len(main_stack) = 1 /\ Top.at = "try"
    /\ StartPolling

\* load_config() and setup_logging(config) of a nested invocation: they are
\* outside the try block, an exception of theirs leaves main()
LoadConfig(outcome) ==
    /\ Top.at = "enter"
    /\ main_stack' = IF outcome = "ok" THEN SetTop([Top EXCEPT !.at = "try"])
                      ELSE RaisesToCaller
    /\ UNCHANGED <<is_running, application, filters, processed_messages,
                   insert_order, pc, retry_count, max_retries, message_data,
                   call, prev, handled, update_queue, journal, reconnect_log>>

\* except Exception: an exception inside the try block starts the
\* reconnection loop of this invocation
TryRaises ==
    /\ Top.at = "try"
    /\ main_stack' = SetTop([Top EXCEPT !.at = "for"])
    /\ UNCHANGED <<is_running, application, filters, processed_messages,
                   insert_order, pc, retry_count, max_retries, message_data,
                   call, prev, handled, update_queue, journal, reconnect_log>>

\* except KeyboardInterrupt, then finally: main() returns
Interrupted ==
    /\ Top.at = "try"
    /\ main_stack' = ReturnsNormally
    /\ Finally
    /\ UNCHANGED <<filters, processed_messages, insert_order, pc, retry_count,
                   max_retries, message_data, call, prev, handled,
                   update_queue, journal, reconnect_log>>

\* one iteration of for attempt in range(max_retries): the log line, the
\* sleep and the call of main()
Reconnect ==
    /\ Top.at = "for" /\ ~Top.broke /\ Top.attempt < Top.max_retries
    /\ Len(main_stack) < MaxDepth
    /\ main_stack' = Append(SetTop([Top EXCEPT !.at = "called", !.attempt = @ + 1]),
                            Frame(Top.max_retries))
    /\ reconnect_log' = [reconnect_log EXCEPT !.attempts = @ + 1]
    /\ UNCHANGED <<is_running, application, filters, processed_messages,
                   insert_order, pc, retry_count, max_retries, message_data,
                   call, prev, handled, update_queue, journal>>

\* the loop is over or was left by break: logger.critical("Se agotaron los
\* intentos de reconexión. Saliendo..."), then finally: main() returns
GiveUp ==
    /\ Top.at = "for" /\ (Top.broke \/ Top.attempt >= Top.max_retries)
    /\ reconnect_log' = [reconnect_log EXCEPT
                             !.exhausted = IF Top.broke THEN "after_success"
                                           ELSE "all_failed"]
    /\ main_stack' = ReturnsNormally
    /\ Finally
    /\ UNCHANGED <<filters, processed_messages, insert_order, pc, retry_count,
                   max_retries, message_data, call, prev, handled,
                   update_queue, journal>>

MainInit ==
    /\ Built
    /\ filters = NoFilters
    /\ message_data = NoMessage
    /\ \E mr \in 0..MaxReconnectRetries :
           main_stack = <<[Frame(mr) EXCEPT !.at = "try"]>>

MainNext ==
    \/ MainStartPolling
    \/ \E outcome \in {"ok", "raises"} : LoadConfig(outcome)
    \/ TryRaises
    \/ Interrupted
    \/ Reconnect
    \/ GiveUp

MainSpec == MainInit /\ [][MainNext]_vars

-----------------------------------------------------------------------------
(* Shutdown while a request is in flight.  stop() is a public method: a    *)
(* signal handler or another thread can call it while the event loop is    *)
(* inside _make_api_request.                                               *)

StopInFlight ==
    /\ application = "polling" /\ pc \in {"post", "sleep"}
    /\ is_running' = FALSE
    /\ application' = "stopped"
    /\ UNCHANGED <<filters, processed_messages, insert_order, pc, retry_count,
                   max_retries, message_data, call, prev, handled,
                   update_queue, journal,
                   main_stack, reconnect_log>>

ShutdownNext ==
    \/ StartPolling
    \/ Stop
    \/ StopInFlight
    \/ \E u \in Updates : message_handler(u)
    \/ \E outcome \in PostOutcomes : Post(outcome)
    \/ Sleep

ShutdownSpec == Init /\ [][ShutdownNext]_vars

-----------------------------------------------------------------------------
(* Properties *)

\* a process_message call has been made, and the one before it is known
TwoCalls == call.via = "process_message" /\ call.id # 0 /\ prev.id # 0

\* C1: when process_message is called twice in sequence with the same id,
\* the second call finds the id in the cache and returns False, and
\* send_message is invoked at most once over the two calls.
C1_SecondCallIsDuplicate ==
    (TwoCalls /\ prev.id = call.id) =>
        /\ call.seen
        /\ call.result = "False"
        /\ prev.sends + call.sends <= 1

\* C2: send_message is invoked for an event only if its id was not in the
\* cache when the event arrived and _apply_filters returned True, and the id
\* is in the cache at the moment send_message is invoked.
C2_SendOnlyWhenRecorded ==
    (call.via = "process_message" /\ call.sends = 1) =>
        /\ ~call.seen
        /\ call.filter = "True"
        /\ call.recorded

\* C3: after a message was filtered out or its dispatch failed, the same id
\* delivered again right away is reported as duplicate and is not dispatched.
C3_FailedIsNotResent ==
    (TwoCalls /\ prev.id = call.id /\ ~prev.seen /\ prev.result = "False") =>
        /\ call.seen
        /\ call.sends = 0

\* C4: the cache never holds more than its capacity.
C4_CacheBounded == Cardinality(processed_messages) <= CacheLimit

\* the cache has been trimmed and is full
C4_Witness ==
    /\ Len(insert_order) > CacheLimit
    /\ Cardinality(processed_messages) = CacheLimit

\* C5: once more than the capacity of distinct ids have been recorded, the
\* cache holds exactly the most recently inserted ones.
C5_EvictionByInsertionOrder ==
    Len(insert_order) > CacheLimit =>
        processed_messages = Range(LastN(insert_order, CacheLimit))

\* C6: when send_message raises, process_message returns False and raises
\* nothing, the event loop is free again, and an event with a fresh id that
\* passes the filters is dispatched whatever happened before it.
C6_DispatchFailureContained ==
    /\ (call.via = "process_message" /\ call.api = "raised") =>
           (call.result = "False" /\ pc = "idle")
    /\ (call.via = "process_message" /\ call.id # 0 /\ ~call.seen
            /\ call.filter = "True") =>
           (call.sends = 1 /\ call.api # "none")

\* a dispatch failed, and the event after it was forwarded
C6_Witness ==
    /\ TwoCalls
    /\ prev.sends = 1 /\ prev.result = "False"
    /\ call.id # prev.id
    /\ call.result = "True" /\ call.api = "returned"

\* a step that ends an event with an error: the extraction or the filters
\* raised (the handler ends in its except branch), or the dispatch raised
ErrorStep ==
    \/ handled' = "error" /\ (handled # "error" \/ call' # call)
    \/ call.via = "process_message" /\ call.api = "pending" /\ call'.api = "raised"

\* the latest event ended with an error
AfterError ==
    handled = "error" \/ (call.via = "process_message" /\ call.api = "raised")

\* a step in which process_message takes up a message whose id is not in
\* the cache and which the filters pass
FreshPassingStep ==
    /\ pc = "idle"
    /\ call' # call
    /\ call'.id = message_data'.message_id
    /\ call'.id \notin processed_messages
    /\ apply_filters(filters, message_data') = "True"

\* C7: an error while processing one event leaves is_running as it was and
\* the event loop polling and free for the next event; the next event is
\* processed as usual: after an error, a fresh message that passes the
\* filters is dispatched.
C7_ErrorsContained ==
    [][ /\ ErrorStep =>
             /\ is_running' = is_running
             /\ application' = "polling"
             /\ pc' = "idle"
        /\ (AfterError /\ FreshPassingStep) =>
             /\ call'.sends = 1
             /\ call'.request = send_message(message_data')
             /\ pc' = "post" ]_vars

\* the filters raised on one event, and the next event was forwarded
C7_Witness ==
    /\ TwoCalls
    /\ prev.result = "raised"
    /\ call.result = "True"
    /\ is_running /\ application = "polling" /\ pc = "idle"

\* every attempt of the request failed with a transport error, and the
\* request gave up
AllAttemptsFailed ==
    /\ call.api = "raised"
    /\ call.posts > 0
    /\ retry_count = call.posts

C9_SuccessEndsTheLoop ==
    call.api = "returned" =>
        /\ call.failed_posts < max_retries
        /\ retry_count = call.failed_posts
        /\ call.posts = call.failed_posts + 1
        /\ call.response = call.posts
        /\ Len(call.sleeps) = call.failed_posts
        /\ pc = "idle"

\* two transport errors, then a success
C9_Witness ==
    /\ call.api = "returned"
    /\ call.failed_posts = 2
    /\ call.response = 3

\* every list of the configuration is empty, whichever keys are present
AllListsEmpty(f) ==
    \A k \in AllKeys : FilterGet(f, k) = <<>>

\* C10: with every list of the filter configuration empty, _apply_filters
\* returns True for every well-formed message.
C10_EmptyFiltersAcceptAll ==
    (AllListsEmpty(filters) /\ call.filter # "none") => call.filter = "True"

\* all four keys present and empty, a message with no user id and no username
C10_Witness ==
    /\ filters = EmptyLists
    /\ message_data.user_id = NoUserId /\ message_data.username = None
    /\ message_data.type = "voice"
    /\ call.filter = "True"

-----------------------------------------------------------------------------
(* Properties of the filters, over process_message called by itself *)

\* process_message was called on the message in hand
Processed == call.via = "process_message" /\ call.id # 0

\* ... and the id was not in the cache: the filters were evaluated
FreshCall == Processed /\ ~call.seen

\* every keyword of the list is a string
AllStrings(list) == \A i \in 1..Len(list) : list[i] # NonStr

\* keyword k occurs in the text or in the caption of m, whatever the case
InTextOrCaption(m, k) ==
    \/ Contains(Lower(m.text), Lower(k))
    \/ Contains(Lower(m.caption), Lower(k))

HasIgnoredKeyword(f, m) ==
    \E i \in 1..Len(FilterGet(f, "ignore_keywords")) :
        InTextOrCaption(m, FilterGet(f, "ignore_keywords")[i])

HasRequiredKeyword(f, m) ==
    \E i \in 1..Len(FilterGet(f, "only_include_keywords")) :
        InTextOrCaption(m, FilterGet(f, "only_include_keywords")[i])

\* a required keyword occurs in text + " " + caption, whatever the case
HasRequiredKeywordJoined(f, m) ==
    \E i \in 1..Len(FilterGet(f, "only_include_keywords")) :
        Contains(Lower(m.text \o <<" ">> \o m.caption),
                 Lower(FilterGet(f, "only_include_keywords")[i]))

\* the sender of m is listed in ignore_users, by username or by user id
UserIgnored(f, m) ==
    \/ Truthy(m.username) /\ InList(m.username, FilterGet(f, "ignore_users"))
    \/ m.user_id # NoUserId /\ InList(Digits(m.user_id), FilterGet(f, "ignore_users"))

\* m has neither a user id nor a username
Anonymous(m) == m.user_id = NoUserId /\ ~Truthy(m.username)

\* the kind of m is not in the non-empty only_forward_media_types
KindNotAllowed(f, m) ==
    /\ FilterGet(f, "only_forward_media_types") # <<>>
    /\ ~InList(m.type, FilterGet(f, "only_forward_media_types"))

\* C11: a message whose text or caption contains an ignored keyword, in any
\* case and at any position, is rejected by _apply_filters and send_message
\* is not invoked for it.
C11_IgnoredKeywordRejects ==
    (/\ Processed
     /\ AllStrings(FilterGet(filters, "ignore_keywords"))
     /\ HasIgnoredKeyword(filters, message_data)) =>
        /\ call.sends = 0
        /\ ~call.seen => (call.filter = "False" /\ call.result = "False")

\* the keyword in upper case in the middle of the text, no other rule set
C11_Witness ==
    /\ FreshCall
    /\ filters.keys = {"ignore_keywords"}
    /\ message_data.text = <<"n", "o", " ", "S", "P", "A", "M">>
    /\ message_data.caption = <<>>
    /\ call.filter = "False"

\* the calls C12 is about: required keywords are configured, and every
\* configured keyword is a string
RequiredKeywordsSet ==
    /\ FreshCall
    /\ FilterGet(filters, "only_include_keywords") # <<>>
    /\ AllStrings(FilterGet(filters, "only_include_keywords"))
    /\ AllStrings(FilterGet(filters, "ignore_keywords"))

\* C12 as stated: with required keywords, a message is accepted only if one
\* of them occurs in its text or in its caption; one with none is rejected.
C12_RequiredKeywordInTextOrCaption ==
    RequiredKeywordsSet =>
        /\ call.filter = "True" => HasRequiredKeyword(filters, message_data)
        /\ ~HasRequiredKeyword(filters, message_data) =>
               (call.filter = "False" /\ call.sends = 0)

\* C12, amended: with required keywords, a message is accepted only if one
\* of them occurs in its text and caption joined by one space; one with
\* none there is rejected and not dispatched.
C12_RequiredKeywordInJoinedText ==
    RequiredKeywordsSet =>
        /\ call.filter = "True" => HasRequiredKeywordJoined(filters, message_data)
        /\ ~HasRequiredKeywordJoined(filters, message_data) =>
               (call.filter = "False" /\ call.sends = 0)

\* a keyword of two words, one in the text and one in the caption: accepted
C12_Witness ==
    /\ RequiredKeywordsSet
    /\ FilterGet(filters, "only_include_keywords") = <<OkSpam>>
    /\ message_data.text = <<"o", "k">> /\ message_data.caption = Spam
    /\ ~HasRequiredKeyword(filters, message_data)
    /\ call.filter = "True" /\ call.sends = 1

\* C13: a message whose sender is listed in ignore_users, by non-empty
\* username or by user id as a string, is rejected and not dispatched; for a
\* message with neither a user id nor a username the verdict is what it is
\* with ignore_users empty.
C13_IgnoredUsers ==
    Processed =>
        /\ UserIgnored(filters, message_data) =>
               /\ call.sends = 0
               /\ ~call.seen => call.filter = "False"
        /\ (~call.seen /\ Anonymous(message_data)) =>
               call.filter = apply_filters([filters EXCEPT !.ignore_users = <<>>],
                                           message_data)

\* C14: a message that contains a required keyword is still rejected, and
\* not dispatched, when its kind is not allowed, its sender is ignored, or
\* it contains an ignored keyword.
C14_RejectionPrecedesRequired ==
    (/\ FreshCall
     /\ FilterGet(filters, "only_include_keywords") # <<>>
     /\ HasRequiredKeyword(filters, message_data)
     /\ \/ KindNotAllowed(filters, message_data)
        \/ UserIgnored(filters, message_data)
        \/ /\ AllStrings(FilterGet(filters, "ignore_keywords"))
           /\ HasIgnoredKeyword(filters, message_data)) =>
        (call.filter = "False" /\ call.sends = 0)

\* a required keyword in the text, an ignored one in the caption, and no
\* other rejecting rule applies
C14_Witness ==
    /\ FreshCall
    /\ HasRequiredKeyword(filters, message_data)
    /\ HasIgnoredKeyword(filters, message_data)
    /\ ~KindNotAllowed(filters, message_data)
    /\ ~UserIgnored(filters, message_data)
    /\ call.filter = "False"

-----------------------------------------------------------------------------
(* Properties of the dispatch and of format_message *)

\* send_message was invoked for the message in hand
Dispatched == call.via = "process_message" /\ call.sends > 0

\* text and caption joined by a blank line when both are non-empty, else
\* whichever is non-empty
CombinedText(m) ==
    IF m.text # <<>> /\ m.caption # <<>>
    THEN m.text \o <<"\n", "\n">> \o m.caption
    ELSE IF m.text # <<>> THEN m.text ELSE m.caption

StartsWith(s, p) == Len(s) >= Len(p) /\ SubSeq(s, 1, Len(p)) = p

\* the kinds that have a WhatsApp category
MappedKinds == {"photo", "video", "audio", "document", "voice", "sticker"}

\* photo -> image, video -> video, audio -> audio, document -> document,
\* voice -> audio, sticker -> image
Category(kind) ==
    IF kind \in {"photo", "sticker"} THEN "image"
    ELSE IF kind \in {"audio", "voice"} THEN "audio"
    ELSE kind

HasAttachment(m) == m.media_file # None /\ m.media_file # <<>>

\* C15: for a message of kind text, send_message is invoked once and builds
\* one send_text_message request whose body is the combined text, without
\* the username in front, and no send_media_message request.
C15_TextSend ==
    (Dispatched /\ message_data.type = "text") =>
        /\ call.sends = 1
        /\ call.request.api = "text"
        /\ call.request.body = CombinedText(message_data)
        /\ Truthy(message_data.username) =>
               ~StartsWith(call.request.body, <<"*">> \o message_data.username)

\* a text message with a sender, a text and a caption was sent
C15_Witness ==
    /\ Dispatched /\ message_data.type = "text"
    /\ message_data.username = Bob
    /\ call.request.body = <<"o", "k", "\n", "\n", "s", "p", "a", "m">>
    /\ call.result = "True"

\* C16: for a media kind with an attachment, send_message builds one
\* send_media_message request with the mapped category and the URL of the
\* attachment; the combined text is its caption for image, video and
\* document, and an audio request carries no caption.
C16_MediaSend ==
    (/\ Dispatched
     /\ message_data.type \in MappedKinds
     /\ HasAttachment(message_data)) =>
        /\ call.sends = 1
        /\ call.request.api = "media"
        /\ call.request.type = Category(message_data.type)
        /\ call.request.link =
               <<"https://example.com/media/">> \o message_data.media_file
        /\ Category(message_data.type) \in {"image", "video", "document"} =>
               call.request.caption = CombinedText(message_data)
        /\ Category(message_data.type) = "audio" =>
               (~call.request.has_caption /\ call.request.caption = <<>>)

\* a voice message with an attachment and a caption went out as audio,
\* without the caption
C16_Witness ==
    /\ Dispatched /\ message_data.type = "voice"
    /\ HasAttachment(message_data)
    /\ message_data.caption = Spam
    /\ call.request.type = "audio" /\ ~call.request.has_caption
    /\ call.result = "True"

\* the message is of a media kind without an attachment, or of a kind that
\* is neither text nor a mapped kind
Degraded(m) ==
    \/ m.type \in MappedKinds /\ ~HasAttachment(m)
    \/ m.type \notin MappedKinds \cup {"text"}

\* C17: a media message without an attachment, and a message of an unmapped
\* kind, go out as one send_text_message request with the combined text and
\* no send_media_message request; when the request succeeds the message is
\* reported forwarded.
C17_DegradedSend ==
    (Dispatched /\ Degraded(message_data)) =>
        /\ call.sends = 1
        /\ call.request.api = "text"
        /\ call.request.body = CombinedText(message_data)
        /\ call.api = "returned" => (call.result = "True" /\ handled = "done")

\* a photo without an attachment was forwarded as text
C17_Witness ==
    /\ Dispatched /\ message_data.type = "photo"
    /\ message_data.media_file = None
    /\ call.request = TextRequest(Spam)
    /\ call.result = "True"

\* "*{username}*: " in front of content exactly when a username is present
Signed(m, content) ==
    IF m.username # None /\ m.username # <<>>
    THEN <<"*">> \o m.username \o <<"*", ":", " ">> \o content
    ELSE content

\* C18: format_message gives, for kind text, the text with the sender in
\* front when there is a username; for every other kind, text, blank line
\* and caption when both are non-empty, else whichever is non-empty, else
\* "[kind]", with the sender in front when there is a username.
C18_Format ==
    call.via = "format_message" =>
        call.formatted =
            IF message_data.type = "text"
            THEN Signed(message_data, message_data.text)
            ELSE IF message_data.text # <<>> \/ message_data.caption # <<>>
            THEN Signed(message_data, CombinedText(message_data))
            ELSE Signed(message_data, <<"[", message_data.type, "]">>)

\* a voice message with a sender and neither text nor caption was formatted
C18_Witness ==
    /\ call.via = "format_message"
    /\ message_data.type = "voice"
    /\ message_data.username = Bob
    /\ call.formatted = <<"*", "b", "o", "b", "*", ":", " ", "[", "voice", "]">>

-----------------------------------------------------------------------------
(* Properties of the update queue *)

\* the filters accept the message of the update with this id
Accepted(id) ==
    apply_filters(filters, extract_message_data(Update(id, MonitoredChat, TRUE)))
        = "True"

\* C19: of two updates with the same message id that waited in the queue
\* together, the first finding the id new, exactly one passes the
\* seen-check, and send_message is invoked exactly once for the id (never
\* when the filters do not accept the message).
C19_TwinsDispatchedOnce ==
    \A i, j \in 1..Len(journal) :
        (/\ journal[i].twin
         /\ journal[i].ev \in {"send", "filtered", "error"}
         /\ journal[j].ev # "done"
         /\ journal[j].n = journal[i].n + 1) =>
            /\ journal[j].ev = "duplicate"
            /\ Cardinality({k \in {i, j} : journal[k].ev = "send"}) =
                   IF Accepted(journal[i].id) THEN 1 ELSE 0

\* C20: send_message calls are made in the order the updates arrived, and
\* each has ended, retries included, before the next begins; a request is
\* in flight only for the latest of them.
C20_SendsInArrivalOrder ==
    /\ \A i, j \in 1..Len(journal) :
           (i < j /\ journal[i].ev = "send" /\ journal[j].ev = "send") =>
               /\ journal[i].n < journal[j].n
               /\ \E k \in (i + 1)..(j - 1) :
                      journal[k].ev = "done" /\ journal[k].n = journal[i].n
    /\ pc \in {"post", "sleep"} =>
           (journal # <<>> /\ journal[Len(journal)].ev = "send")

\* two updates were forwarded, the second after two failed attempts, while
\* another update was waiting in the queue
C20_Witness ==
    /\ Len(SelectSeq(journal, LAMBDA e : e.ev = "send")) >= 2
    /\ call.failed_posts = 2 /\ call.result = "True"
    /\ update_queue # <<>>

-----------------------------------------------------------------------------
(* Properties of process_message: what a call leaves behind *)

\* a step in which process_message finds the id in the cache
DuplicateStep ==
    /\ pc = "idle"
    /\ <<call, prev, message_data>>' # <<call, prev, message_data>>
    /\ call'.via = "process_message" /\ call'.id # 0
    /\ call'.seen

\* C22: a call of process_message with an id that is in the cache leaves
\* the cache as it is, does not evaluate the filters and does not invoke
\* send_message.
C22_DuplicateHasNoEffect ==
    [][ DuplicateStep =>
            /\ processed_messages' = processed_messages
            /\ insert_order' = insert_order
            /\ call'.filter = "none"
            /\ call'.sends = 0 /\ call'.posts = 0
            /\ call'.result = "False"
            /\ pc' = "idle" ]_vars

\* a message that was forwarded has come again and was dropped
C22_Witness ==
    /\ TwoCalls /\ prev.id = call.id
    /\ prev.sends = 1 /\ prev.result = "True"
    /\ call.seen /\ call.result = "False"
    /\ call.id \in processed_messages

\* C25: after process_message has taken up a message, whatever the outcome
\* and whether or not the cache was trimmed, the id of the message is in
\* the cache.
C25_JustRecordedIsKept ==
    (call.via = "process_message" /\ call.id # 0) =>
        call.id \in processed_messages

\* C26: process_message returns True exactly when send_message was invoked
\* and returned; send_message is invoked at most once in a call, and it
\* builds one request, either of send_text_message or of
\* send_media_message.
C26_TrueIffSent ==
    Processed =>
        /\ call.result = "True" <=>
               (call.sends = 1 /\ call.api \in {"returned", "returned_none"})
        /\ call.sends <= 1
        /\ call.sends = 1 =>
               /\ call.request.api \in {"text", "media"}
               /\ call.request.api = "text" <=> call.request.link = <<>>
        /\ (call.sends = 0 /\ pc = "idle") => call.result \in {"False", "raised"}

\* a media message was forwarded after one failed attempt
C26_Witness ==
    /\ Processed
    /\ call.result = "True" /\ call.sends = 1
    /\ call.request.api = "media"
    /\ call.failed_posts = 1

-----------------------------------------------------------------------------
(* Properties of _make_api_request, for any max_retries *)

\* C27: _make_api_request returns only the response of an attempt that
\* succeeded, whatever max_retries is, and process_message reports True
\* only after such a return.
C27_ReturnsOnlyAfterSuccess ==
    /\ call.api \in {"returned", "returned_none"} =>
           /\ call.api = "returned"
           /\ call.posts = call.failed_posts + 1
           /\ call.response = call.posts
    /\ call.result = "True" => call.api = "returned"

\* C28: at most max_retries POSTs are made; the k-th failed attempt is
\* followed by a sleep of 2^k seconds only when k < max_retries, so that
\* after the failure that reaches max_retries there is no sleep and the
\* error is raised at once.
C28_AttemptsAndWaits ==
    call.api # "none" =>
        /\ call.posts <= max_retries
        /\ retry_count <= max_retries
        /\ call.sleeps = [k \in 1..Len(call.sleeps) |-> 2 ^ k]
        /\ Len(call.sleeps) < max_retries \/ max_retries = 0
        /\ Len(call.sleeps) = IF retry_count = 0 THEN 0
                              ELSE IF pc = "sleep" \/ retry_count = max_retries
                              THEN retry_count - 1
                              ELSE retry_count
        /\ (retry_count = max_retries /\ max_retries > 0) =>
               (call.api = "raised" /\ pc = "idle")

\* four attempts allowed, all failed: waits of 2, 4 and 8, then the error
C28_Witness ==
    /\ max_retries = 4
    /\ call.posts = 4 /\ call.failed_posts = 4
    /\ call.sleeps = <<2, 4, 8>>
    /\ call.api = "raised" /\ pc = "idle"

\* C23: a call that completes at the HTTP level with a body that lacks the
\* message id does not crash the dispatcher and counts as a failed
\* delivery: process_message does not return True for it.
C23_UnexpectedResponseIsFailure ==
    (call.via = "process_message" /\ call.reply = "no_id") =>
        /\ call.result = "False"
        /\ pc = "idle"

-----------------------------------------------------------------------------
(* Properties of the shutdown *)

\* C21: once stop() has been called while a request was in flight, the
\* retry loop schedules no further attempt: from its wait it does not go
\* on to another POST.
C21_NoRetryAfterShutdown ==
    [][ (~is_running /\ application = "stopped" /\ pc = "sleep") =>
            pc' # "post" ]_vars

-----------------------------------------------------------------------------
(* Properties of the running flag and of the gate in _message_handler *)

\* the journal entries of updates taken from the queue
TakenEntries == {k \in 1..Len(journal) : journal[k].ev # "done"}

\* the update of entry k was taken while the bridge was inactive, or it
\* came from a chat other than the monitored channel
Gated(k) == ~journal[k].running \/ journal[k].chat # MonitoredChat

\* C24: is_running is False after construction, True after start_polling
\* and after /start, False after /stop and after stop(); while it is False
\* no update reaches the callback: each one is dropped, and nothing is
\* recorded, dispatched or posted.
C24_RunningFlag ==
    /\ ~is_running
    /\ [][ /\ StartPolling => is_running'
           /\ StartCommand => is_running'
           /\ StopCommand => ~is_running'
           /\ Stop => ~is_running'
           /\ ~is_running =>
                  UNCHANGED <<processed_messages, insert_order, message_data,
                              call, prev, pc>> ]_vars
    /\ [](\A k \in TakenEntries : ~journal[k].running => journal[k].ev = "dropped")

\* an update was dropped while the bridge was inactive, another was
\* forwarded while it was active, and the bridge has been stopped
C24_Witness ==
    /\ \E k \in TakenEntries : ~journal[k].running /\ journal[k].ev = "dropped"
    /\ \E k \in TakenEntries : journal[k].running /\ journal[k].ev = "send"
    /\ call.result = "True"
    /\ application = "stopped" /\ ~is_running

\* C29: an update taken while the bridge is inactive, or from another
\* chat, does not reach process_message: it is dropped and its id is not
\* recorded; a message id that came only in such updates is new when it
\* comes from the monitored channel with the bridge active, and is
\* dispatched when the filters accept it.
C29_GatedUpdatesLeaveNoTrace ==
    /\ \A k \in TakenEntries : Gated(k) => journal[k].ev = "dropped"
    /\ processed_messages \subseteq {journal[k].id : k \in {i \in TakenEntries : ~Gated(i)}}
    /\ \A j \in TakenEntries :
           (/\ ~Gated(j)
            /\ \A i \in TakenEntries :
                   (i < j /\ journal[i].id = journal[j].id) => Gated(i)) =>
               /\ journal[j].ev # "duplicate"
               /\ Accepted(journal[j].id) => journal[j].ev = "send"

\* message 1 came while the bridge was inactive and from another chat, and
\* was dispatched when it came from the channel after /start
C29_Witness ==
    \E i, j, k \in TakenEntries :
        /\ i < k /\ j < k
        /\ journal[i].id = 1 /\ ~journal[i].running
        /\ journal[j].id = 1 /\ journal[j].running /\ journal[j].chat = OtherChat
        /\ journal[k].id = 1 /\ journal[k].ev = "send"
        /\ is_running

\* C30: after an unexpected exception main makes at most max_retries
\* reconnection attempts in total, and it logs that the attempts are
\* exhausted only when no attempt succeeded.
C30_ReconnectionBounded ==
    /\ reconnect_log.attempts <= main_stack[1].max_retries
    /\ reconnect_log.exhausted # "after_success"

====
